---- MODULE Spec2Model ----
(***************************************************************************)
(* Fraud detection for banking transactions: the Flask request handlers    *)
(* of app.py (add, update, delete) over the SQLite schema and triggers of  *)
(* db_init.py.                                                             *)
(*                                                                         *)
(* `db` is the committed database.  Every request opens its own            *)
(* connection; a connection's first INSERT/UPDATE/DELETE opens a write     *)
(* transaction (python's sqlite3 issues BEGIN before a DML statement)      *)
(* that lasts until conn.commit() or conn.rollback().  SQLite admits one   *)
(* writer at a time and shows the other connections committed data only,   *)
(* so the statements of one write transaction and its commit are one step  *)
(* of the model; the steps of a handler are its transactions and the       *)
(* SELECT it runs outside of them, and the handlers of concurrent requests *)
(* interleave between these steps.                                         *)
(*                                                                         *)
(* Rows are kept without their store-assigned surrogates (the              *)
(* AUTOINCREMENT id of both tables, flagged_at of fraud_alerts): a table   *)
(* is a bag of rows.  txn_time is the number of seconds after              *)
(* 2024-01-15 10:00:00; the text form 'YYYY-MM-DD HH:MM:SS' the code       *)
(* stores and compares orders the same way.                                *)
(***************************************************************************)
EXTENDS Integers, FiniteSets, Sequences, Bags, TLC

\* ------------------------------------------------------------ bounds
NumProcs == 2
MaxRequests == 2
MaxFaults == 1

\* ------------------------------------------------- program constants
HighAmountLimit == 10000
RapidLimit == 5
WindowMinutes == 5

Procs == 1..NumProcs

\* ------------------------------------------------------ form inputs
TxnIdInputs == {"", "TXN002", "TXN009"}
UrlIds == {"TXN002", "TXN009"}
UserInputs == {"", "USER001", "USER002"}
AmountInputs == {"", "abc", "-5", "0", "10000", "12000"}
LocationInputs == {"Delhi"}
TimeInputs == {"", "2024-01-15T10:03", "2024-01-15T10:05"}
TypeInputs == {"Credit", "Wire"}
\* datetime.now() of a create without txn_time
NowTimes == {86400}

\* float(amount): the texts that parse, and their values
FloatValue == ("-5" :> -5) @@ ("0" :> 0) @@ ("10000" :> 10000) @@ ("12000" :> 12000)

IsFloat(s) == s \in DOMAIN FloatValue

\* txn_time.replace('T', ' ') + ':00' : a datetime-local text (minute
\* resolution) becomes a time of second resolution, seconds being 00
LocalMinutes == ("2024-01-15T10:03" :> 3) @@ ("2024-01-15T10:05" :> 5)

FormTime(s) == LocalMinutes[s] * 60 + 0

\* ---------------------------------------------------------- tables
RECURSIVE SumCopies(_, _)
SumCopies(B, S) ==
    IF S = {} THEN 0
    ELSE LET x == CHOOSE y \in S : TRUE
         IN  B[x] + SumCopies(B, S \ {x})

\* the rows of bag B that lie in the set S
BagSelect(B, S) == [x \in DOMAIN B \cap S |-> B[x]]

\* the bag B with every row x replaced by f[x]
BagMap(B, f) ==
    [y \in {f[x] : x \in DOMAIN B} |->
        SumCopies(B, {x \in DOMAIN B : f[x] = y})]

BagInsert(B, x) == B (+) SetToBag({x})

EmptyDb == [txns |-> EmptyBag, alerts |-> EmptyBag]

TxnRow(tid, user, amount, location, time, type, status) ==
    [transaction_id |-> tid, user_id |-> user, amount |-> amount,
     location |-> location, txn_time |-> time, txn_type |-> type,
     status |-> status]

HighReason(amount) == <<"High amount transaction", amount>>

RapidReason(count) == <<"Rapid transactions detected", count>>

AlertRow(tid, user, amount, reason) ==
    [transaction_id |-> tid, user_id |-> user, amount |-> amount,
     reason |-> reason]

\* SELECT transaction_id FROM transactions WHERE transaction_id = ?
SelectTxn(d, tid) ==
    BagSelect(d.txns, {r \in DOMAIN d.txns : r.transaction_id = tid})

\* datetime(t, '-5 minutes')
MinusFiveMinutes(t) == t - WindowMinutes * 60

\* SELECT COUNT(*) FROM transactions WHERE user_id = ? AND
\*   txn_time >= datetime(?, '-5 minutes') AND txn_time <= ?
CountRapid(d, user, time) ==
    BagCardinality(BagSelect(d.txns, {r \in DOMAIN d.txns :
        /\ r.user_id = user
        /\ r.txn_time >= MinusFiveMinutes(time)
        /\ r.txn_time <= time}))

\* UPDATE transactions SET status = 'FLAGGED' WHERE transaction_id = ?
SetFlagged(d, tid) ==
    [d EXCEPT !.txns = BagMap(d.txns, [r \in DOMAIN d.txns |->
        IF r.transaction_id = tid THEN [r EXCEPT !.status = "FLAGGED"] ELSE r])]

InsertAlert(d, tid, user, amount, reason) ==
    [d EXCEPT !.alerts = BagInsert(d.alerts, AlertRow(tid, user, amount, reason))]

\* DELETE FROM fraud_alerts, without the WHERE clause
DeleteAlertsOfAll(d, tid) == [d EXCEPT !.alerts = EmptyBag]

\* DELETE FROM fraud_alerts WHERE transaction_id = ?
DeleteAlerts(d, tid) ==
    [d EXCEPT !.alerts = BagSelect(d.alerts, {a \in DOMAIN d.alerts : a.transaction_id # tid})]

\* DELETE FROM transactions WHERE transaction_id = ?
DeleteTxn(d, tid) ==
    [d EXCEPT !.txns = BagSelect(d.txns, {r \in DOMAIN d.txns : r.transaction_id # tid})]

\* WHEN NEW.amount > 10000
HighAmount(amount) == amount > HighAmountLimit

\* HAVING COUNT(*) > 5 ; result['count'] > 5
Rapid(count) == count > RapidLimit

\* mutant: the trigger writes the alert and leaves the status as it is
TrgFlagHighAmountAlertOnly(d, new) ==
    IF new.amount > HighAmountLimit
    THEN InsertAlert(d, new.transaction_id, new.user_id, new.amount,
                     <<"High amount transaction", new.amount>>)
    ELSE d

\* trigger trg_flag_high_amount, AFTER INSERT ON transactions
TrgFlagHighAmount(d, new) ==
    IF HighAmount(new.amount)
    THEN SetFlagged(InsertAlert(d, new.transaction_id, new.user_id, new.amount,
                                HighReason(new.amount)),
                    new.transaction_id)
    ELSE d

\* trigger trg_flag_rapid_txns, AFTER INSERT ON transactions
TrgFlagRapidTxns(d, new) ==
    LET n  == CountRapid(d, new.user_id, new.txn_time)
        d1 == IF Rapid(n)
              THEN InsertAlert(d, new.transaction_id, new.user_id, new.amount,
                               RapidReason(n))
              ELSE d
    IN  IF Rapid(CountRapid(d1, new.user_id, new.txn_time))
        THEN SetFlagged(d1, new.transaction_id)
        ELSE d1

\* mutant: the column is declared without UNIQUE
UniqueViolationNever(d, tid) == FALSE

\* transaction_id TEXT UNIQUE NOT NULL
UniqueViolation(d, tid) == BagCardinality(SelectTxn(d, tid)) > 0

\* CHECK(txn_type IN ('Credit', 'Debit'))
CheckViolation(type) == type \notin {"Credit", "Debit"}

\* INSERT INTO transactions (...) VALUES (..., 'OK'), with both triggers
InsertTxn(d, new) ==
    TrgFlagRapidTxns(
        TrgFlagHighAmount([d EXCEPT !.txns = BagInsert(d.txns, new)], new),
        new)

\* UPDATE transactions SET user_id = ?, ..., status = 'OK' WHERE transaction_id = ?
UpdateTxn(d, tid, user, amount, location, time, type) ==
    [d EXCEPT !.txns = BagMap(d.txns, [r \in DOMAIN d.txns |->
        IF r.transaction_id = tid
        THEN TxnRow(tid, user, amount, location, time, type, "OK")
        ELSE r])]

\* a high amount check that fires at the limit already
UpdHighAmountAtLimit(d, tid, user, amount) ==
    IF amount >= HighAmountLimit
    THEN SetFlagged(InsertAlert(d, tid, user, amount, HighReason(amount)), tid)
    ELSE d

\* update_transaction: the high amount check after the alerts were deleted
UpdHighAmount(d, tid, user, amount) ==
    IF HighAmount(amount)
    THEN SetFlagged(InsertAlert(d, tid, user, amount, HighReason(amount)), tid)
    ELSE d

\* update_transaction: the rapid transactions check
UpdRapid(d, tid, user, amount, time) ==
    LET n == CountRapid(d, user, time)
    IN  IF Rapid(n)
        THEN SetFlagged(InsertAlert(d, tid, user, amount, RapidReason(n)), tid)
        ELSE d

\* ------------------------------------------------- db_init.py, main()
SampleTransactions ==
    << TxnRow("TXN001", "USER001",  5000, "Delhi",        0, "Credit", "OK"),
       TxnRow("TXN002", "USER001", 12000, "Mumbai",      60, "Debit",  "OK"),
       TxnRow("TXN003", "USER002",  8000, "Bangalore", 3600, "Credit", "OK"),
       TxnRow("TXN004", "USER001",  1500, "Delhi",      120, "Debit",  "OK"),
       TxnRow("TXN005", "USER001",  2000, "Delhi",      180, "Credit", "OK"),
       TxnRow("TXN006", "USER001",  3000, "Delhi",      240, "Debit",  "OK"),
       TxnRow("TXN007", "USER001",  2500, "Delhi",      300, "Credit", "OK"),
       TxnRow("TXN008", "USER001",  1800, "Delhi",      360, "Debit",  "OK") >>

\* INSERT OR IGNORE of the first n sample rows, one after the other
RECURSIVE InsertSampleData(_)
InsertSampleData(n) ==
    IF n = 0 THEN EmptyDb
    ELSE LET d   == InsertSampleData(n - 1)
             row == SampleTransactions[n]
         IN  IF UniqueViolation(d, row.transaction_id) \/ CheckViolation(row.txn_type)
             THEN d
             ELSE InsertTxn(d, row)

SampleDb == InsertSampleData(Len(SampleTransactions))

\* ------------------------------------------------------------ state
VARIABLES
    db,       \* the committed database: [txns, alerts], two bags of rows
    pc,       \* where each request handler stands
    req,      \* the request each handler serves (its validated form values)
    outcome,  \* how each handler's last request ended (the message it flashed)
    dirty,    \* history: the handler's request has committed a change of db
    sample,   \* history: the application started on the sample data
    deleted,  \* history: ids whose delete committed and that were not created since
    nreq,     \* requests received so far
    faults    \* storage errors raised so far

vars == <<db, pc, req, outcome, dirty, sample, deleted, nreq, faults>>

NoReq == [op |-> "none", transaction_id |-> "", user_id |-> "", amount |-> 0,
          location |-> "", txn_time |-> 0, txn_type |-> ""]

Request(op, tid, user, amount, location, time, type) ==
    [op |-> op, transaction_id |-> tid, user_id |-> user, amount |-> amount,
     location |-> location, txn_time |-> time, txn_type |-> type]

Init ==
    /\ db \in {EmptyDb, SampleDb}
    /\ pc = [p \in Procs |-> "idle"]
    /\ req = [p \in Procs |-> NoReq]
    /\ outcome = [p \in Procs |-> "none"]
    /\ dirty = [p \in Procs |-> FALSE]
    /\ sample = (db = SampleDb)
    /\ deleted = {}
    /\ nreq = 0
    /\ faults = 0

\* a handler returns: the message it flashed, its connection closed
Finish(p, msg) ==
    /\ pc' = [pc EXCEPT ![p] = "idle"]
    /\ outcome' = [outcome EXCEPT ![p] = msg]

\* an idle handler may take a request
Ready(p) ==
    /\ pc[p] = "idle"
    /\ nreq < MaxRequests

\* a request arrives at an idle handler
Arrive(p, r, next) ==
    /\ nreq' = nreq + 1
    /\ dirty' = [dirty EXCEPT ![p] = FALSE]
    /\ req' = [req EXCEPT ![p] = r]
    /\ IF next \in {"required", "format", "amount"}
       THEN Finish(p, next)
       ELSE /\ pc' = [pc EXCEPT ![p] = next]
            /\ outcome' = [outcome EXCEPT ![p] = "pending"]
    /\ UNCHANGED <<db, sample, deleted, faults>>

\* a validation without the check of amount <= 0
ValidateAnyAmount(required, amount) ==
    IF \E f \in required : f = "" THEN "required"
    ELSE IF ~IsFloat(amount) THEN "format"
    ELSE ""

\* the validation of a form: what it flashes, "" when the form passes
Validate(required, amount) ==
    IF \E f \in required : f = "" THEN "required"
    ELSE IF ~IsFloat(amount) THEN "format"
    ELSE IF FloatValue[amount] <= 0 THEN "amount"
    ELSE ""

\* conn.commit() of p's write transaction, which made d of the database
Commit(p, d) ==
    /\ db' = d
    /\ dirty' = [dirty EXCEPT ![p] = dirty[p] \/ d # db]

\* ------------------------------------------------------ POST /add
AddPost(p) ==
    /\ Ready(p)
    /\ \E tid \in TxnIdInputs, user \in UserInputs, amount \in AmountInputs,
          location \in LocationInputs, time \in TimeInputs, type \in TypeInputs,
          now \in NowTimes :
        LET bad == Validate({tid, user, amount, location, type}, amount)
        IN  IF bad # ""
            THEN Arrive(p, [NoReq EXCEPT !.op = "add"], bad)
            ELSE Arrive(p, Request("add", tid, user, FloatValue[amount], location,
                                   IF time = "" THEN now ELSE FormTime(time), type),
                        "add_select")

\* SELECT transaction_id FROM transactions WHERE transaction_id = ?
AddSelect(p) ==
    /\ pc[p] = "add_select"
    /\ IF BagCardinality(SelectTxn(db, req[p].transaction_id)) > 0
       THEN Finish(p, "exists")
       ELSE /\ pc' = [pc EXCEPT ![p] = "add_insert"]
            /\ UNCHANGED outcome
    /\ UNCHANGED <<db, req, dirty, sample, deleted, nreq, faults>>

\* INSERT INTO transactions ...; conn.commit()
AddInsert(p) ==
    /\ pc[p] = "add_insert"
    /\ LET r == req[p]
       IN  IF UniqueViolation(db, r.transaction_id) \/ CheckViolation(r.txn_type)
           THEN \* sqlite3.IntegrityError: flash, conn.rollback()
                /\ Finish(p, "exists")
                /\ UNCHANGED <<db, dirty, deleted>>
           ELSE /\ Commit(p, InsertTxn(db, TxnRow(r.transaction_id, r.user_id,
                                  r.amount, r.location, r.txn_time, r.txn_type, "OK")))
                /\ Finish(p, "added")
                /\ deleted' = deleted \ {r.transaction_id}
    /\ UNCHANGED <<req, sample, nreq, faults>>

\* ------------------------------------------- POST /update/<transaction_id>
UpdatePost(p) ==
    /\ Ready(p)
    /\ \E tid \in UrlIds, user \in UserInputs, amount \in AmountInputs,
          location \in LocationInputs, time \in TimeInputs, type \in TypeInputs :
        LET bad == Validate({user, amount, location, time, type}, amount)
        IN  IF bad # ""
            THEN Arrive(p, [NoReq EXCEPT !.op = "update"], bad)
            ELSE Arrive(p, Request("update", tid, user, FloatValue[amount], location,
                                   FormTime(time), type),
                        "upd_update")

\* UPDATE transactions SET ... status = 'OK' WHERE transaction_id = ?; conn.commit()
UpdUpdate(p) ==
    /\ pc[p] = "upd_update"
    /\ LET r == req[p]
       IN  IF CheckViolation(r.txn_type)
              /\ BagCardinality(SelectTxn(db, r.transaction_id)) > 0
           THEN \* sqlite3.IntegrityError, caught as sqlite3.Error: conn.rollback()
                /\ Finish(p, "dberror")
                /\ UNCHANGED <<db, dirty>>
           ELSE /\ Commit(p, UpdateTxn(db, r.transaction_id, r.user_id, r.amount,
                                       r.location, r.txn_time, r.txn_type))
                /\ pc' = [pc EXCEPT ![p] = "upd_alerts"]
                /\ UNCHANGED outcome
    /\ UNCHANGED <<req, sample, deleted, nreq, faults>>

\* the checks run without the DELETE FROM fraud_alerts before them
ReevaluateKeepAlerts(d, r) ==
    UpdRapid(
        UpdHighAmount(d, r.transaction_id, r.user_id, r.amount),
        r.transaction_id, r.user_id, r.amount, r.txn_time)

\* the alerts of the transaction written again: DELETE FROM fraud_alerts,
\* the high amount check, the rapid transactions check; conn.commit()
Reevaluate(d, r) ==
    UpdRapid(
        UpdHighAmount(DeleteAlerts(d, r.transaction_id),
                      r.transaction_id, r.user_id, r.amount),
        r.transaction_id, r.user_id, r.amount, r.txn_time)

UpdAlerts(p) ==
    /\ pc[p] = "upd_alerts"
    /\ Commit(p, Reevaluate(db, req[p]))
    /\ Finish(p, "updated")
    /\ UNCHANGED <<req, sample, deleted, nreq, faults>>

\* ------------------------------------------- GET /delete/<transaction_id>
DeleteGet(p) ==
    /\ Ready(p)
    /\ \E tid \in UrlIds :
        Arrive(p, Request("delete", tid, "", 0, "", 0, ""), "del_delete")

\* a delete that reports an id that is not stored instead of deleting nothing
DelDeleteNotFound(p) ==
    /\ pc[p] = "del_delete"
    /\ IF BagCardinality(SelectTxn(db, req[p].transaction_id)) = 0
       THEN /\ Finish(p, "notfound")
            /\ UNCHANGED <<db, dirty, deleted>>
       ELSE /\ Commit(p, DeleteTxn(DeleteAlerts(db, req[p].transaction_id),
                                   req[p].transaction_id))
            /\ Finish(p, "deleted")
            /\ deleted' = deleted \cup {req[p].transaction_id}
    /\ UNCHANGED <<req, sample, nreq, faults>>

\* DELETE FROM fraud_alerts ...; DELETE FROM transactions ...; conn.commit()
DelDelete(p) ==
    /\ pc[p] = "del_delete"
    /\ Commit(p, DeleteTxn(DeleteAlerts(db, req[p].transaction_id),
                           req[p].transaction_id))
    /\ Finish(p, "deleted")
    /\ deleted' = deleted \cup {req[p].transaction_id}
    /\ UNCHANGED <<req, sample, nreq, faults>>

\* ------------------------------------------------- except sqlite3.Error
\* the handler's next statement or commit raises sqlite3.Error (the
\* database is locked, the disk is full, ...): flash, conn.rollback(),
\* which undoes the open transaction and nothing committed before it
StorageError(p) ==
    /\ pc[p] # "idle"
    /\ faults < MaxFaults
    /\ faults' = faults + 1
    /\ Finish(p, "dberror")
    /\ UNCHANGED <<db, req, dirty, sample, deleted, nreq>>

Next ==
    \E p \in Procs :
        \/ AddPost(p)
        \/ AddSelect(p)
        \/ AddInsert(p)
        \/ UpdatePost(p)
        \/ UpdUpdate(p)
        \/ UpdAlerts(p)
        \/ DeleteGet(p)
        \/ DelDelete(p)
        \/ StorageError(p)

Spec == Init /\ [][Next]_vars

TypeOK ==
    /\ nreq \in 0..MaxRequests
    /\ faults \in 0..MaxFaults
    /\ \A p \in Procs : pc[p] \in {"idle", "add_select", "add_insert",
                                   "upd_update", "upd_alerts", "del_delete"}

\* a handler's request run alone, from arrival to return, without a storage error
RunAlone(d, r) ==
    CASE r.op = "add" ->
            IF UniqueViolation(d, r.transaction_id) \/ CheckViolation(r.txn_type)
            THEN d
            ELSE InsertTxn(d, TxnRow(r.transaction_id, r.user_id, r.amount,
                                     r.location, r.txn_time, r.txn_type, "OK"))
      [] r.op = "update" ->
            IF CheckViolation(r.txn_type)
               /\ BagCardinality(SelectTxn(d, r.transaction_id)) > 0
            THEN d
            ELSE Reevaluate(UpdateTxn(d, r.transaction_id, r.user_id, r.amount,
                                      r.location, r.txn_time, r.txn_type), r)
      [] r.op = "delete" ->
            DeleteTxn(DeleteAlerts(d, r.transaction_id), r.transaction_id)
      [] OTHER -> d

\* ------------------------------------------------ the claims' vocabulary
InitialDb == IF sample THEN SampleDb ELSE EmptyDb

Stored(d, tid) == \E r \in DOMAIN d.txns : r.transaction_id = tid

Referenced(d, tid) == \E a \in DOMAIN d.alerts : a.transaction_id = tid

HighAlertFor(d, tid) ==
    \E a \in DOMAIN d.alerts :
        a.transaction_id = tid /\ a.reason[1] = "High amount transaction"

VelocityAlertFor(d, tid) ==
    \E a \in DOMAIN d.alerts :
        a.transaction_id = tid /\ a.reason[1] = "Rapid transactions detected"

\* the stored transactions of `user` in the window [time - 5 minutes, time]
InWindow(d, user, time) ==
    BagCardinality(BagSelect(d.txns, {r \in DOMAIN d.txns :
        r.user_id = user /\ time - 300 <= r.txn_time /\ r.txn_time <= time}))

\* handler p takes a step of the create, update, delete handler
AddStep(p) == pc[p] \in {"add_select", "add_insert"} /\ pc'[p] # pc[p]

UpdateStep(p) == pc[p] \in {"upd_update", "upd_alerts"} /\ pc'[p] # pc[p]

\* handler p's create, update returns with success in this step
Created(p) == pc[p] = "add_insert" /\ outcome'[p] = "added"

Updated(p) == pc[p] = "upd_alerts" /\ outcome'[p] = "updated"

\* ---------------------------------------------------------------- C1
\* C1: in every committed state every stored transaction is FLAGGED if and
\* only if at least one alert references its transaction_id.
C1_StatusMatchesAlerts ==
    \A r \in DOMAIN db.txns :
        (r.status = "FLAGGED") <=> Referenced(db, r.transaction_id)

\* ---------------------------------------------------------------- C2
\* C2: an update request that ends in a storage error has committed no
\* change: the store is the one before the request.
C2_FailedUpdateCommitsNothing ==
    \A p \in Procs :
        (req[p].op = "update" /\ outcome[p] = "dberror") => ~dirty[p]

\* ---------------------------------------------------------------- C3
\* C3: two requests on one transaction_id (update with update, update with
\* delete), both run to their end from the initial database, leave the
\* database that one of the two serial orders leaves.
C3_SameIdSerializable ==
    \A p, q \in Procs :
        ( /\ p # q
          /\ nreq = 2
          /\ pc[p] = "idle" /\ pc[q] = "idle"
          /\ req[p].op = "update" /\ outcome[p] = "updated"
          /\ \/ req[q].op = "update" /\ outcome[q] = "updated"
             \/ req[q].op = "delete" /\ outcome[q] = "deleted"
          /\ req[p].transaction_id = req[q].transaction_id )
        => db \in { RunAlone(RunAlone(InitialDb, req[p]), req[q]),
                    RunAlone(RunAlone(InitialDb, req[q]), req[p]) }

\* ---------------------------------------------------------------- C4
\* C4: when a create of T returns with success, a high-amount alert
\* referencing T exists if and only if T.amount > 10000.
C4_HighAmountOnCreate ==
    [][ \A p \in Procs :
            Created(p) =>
                (HighAlertFor(db', req[p].transaction_id) <=> req[p].amount > 10000)
      ]_vars

\* ---------------------------------------------------------------- C5
\* C5: when a create of T (user u, time t) returns with success, a velocity
\* alert referencing T exists if and only if more than 5 stored
\* transactions of u, T included, lie in [t - 5 minutes, t].
C5_VelocityOnCreate ==
    [][ \A p \in Procs :
            Created(p) =>
                (VelocityAlertFor(db', req[p].transaction_id)
                   <=> InWindow(db', req[p].user_id, req[p].txn_time) > 5)
      ]_vars

\* ---------------------------------------------------------------- C6
\* C6: when an update of an existing T returns with success and the stored
\* T breaches no rule (amount <= 10000, at most 5 transactions of its user
\* in its window), no alert references T and T.status = OK.
C6_UpdateConsistency ==
    [][ \A p \in Procs :
            Updated(p) =>
                \A r \in DOMAIN db'.txns :
                    ( /\ r.transaction_id = req[p].transaction_id
                      /\ r.amount <= 10000
                      /\ InWindow(db', r.user_id, r.txn_time) <= 5 )
                    => (~Referenced(db', r.transaction_id) /\ r.status = "OK")
      ]_vars

\* ---------------------------------------------------------------- C7
\* C7: a step of an update request whose transaction_id is not stored
\* changes neither store, and the request does not return with success.
C7_UpdateOfAbsentId ==
    [][ \A p \in Procs :
            (UpdateStep(p) /\ ~Stored(db, req[p].transaction_id)) =>
                (db' = db /\ outcome'[p] # "updated")
      ]_vars

\* ---------------------------------------------------------------- C8
\* C8: once a delete of X has committed, no alert references X until a
\* transaction X is created again.
C8_DeleteCascade ==
    \A x \in deleted : ~Referenced(db, x)

\* ---------------------------------------------------------------- C9
\* what a create of r commits when the rules are run on it: the row with
\* its derived status, and one alert for each rule it breaches
CreatedWhole(d, e, r) ==
    LET n     == InWindow(d, r.user_id, r.txn_time) + 1
        high  == r.amount > 10000
        rapid == n > 5
        row   == TxnRow(r.transaction_id, r.user_id, r.amount, r.location,
                        r.txn_time, r.txn_type,
                        IF high \/ rapid THEN "FLAGGED" ELSE "OK")
        ha    == IF high
                 THEN SetToBag({AlertRow(r.transaction_id, r.user_id, r.amount,
                                         <<"High amount transaction", r.amount>>)})
                 ELSE EmptyBag
        ra    == IF rapid
                 THEN SetToBag({AlertRow(r.transaction_id, r.user_id, r.amount,
                                         <<"Rapid transactions detected", n>>)})
                 ELSE EmptyBag
    IN  /\ e.txns = d.txns (+) SetToBag({row})
        /\ e.alerts = (d.alerts (+) ha) (+) ra

\* C9: every step of a create request either commits nothing, or commits
\* the transaction row, every alert the rules yield for it and its derived
\* status together, and only then does the request return with success.
C9_CreateAtomic ==
    [][ \A p \in Procs :
            AddStep(p) =>
                \/ db' = db /\ outcome'[p] # "added"
                \/ outcome'[p] = "added" /\ CreatedWhole(db, db', req[p])
      ]_vars

\* a create committed a flagged transaction with both its alerts, and
\* another create ended in a storage error and committed nothing
C9_Witness ==
    \E p, q \in Procs :
        /\ req[p].op = "add" /\ outcome[p] = "added"
        /\ \E r \in DOMAIN db.txns :
              r.transaction_id = req[p].transaction_id /\ r.status = "FLAGGED"
        /\ HighAlertFor(db, req[p].transaction_id)
        /\ VelocityAlertFor(db, req[p].transaction_id)
        /\ q # p
        /\ req[q].op = "add" /\ outcome[q] = "dberror" /\ ~dirty[q]

\* --------------------------------------------------------------- C10
UniqueIds ==
    \A r1, r2 \in DOMAIN db.txns :
        /\ db.txns[r1] = 1
        /\ r1.transaction_id = r2.transaction_id => r1 = r2

\* C10: a step of a create request whose transaction_id is stored ends the
\* request as a duplicate and changes nothing; a create returns with
\* success only if the id was not stored, and the INSERT of a well-formed
\* row with an id that is not stored succeeds (of two racing creates the
\* first succeeds, the second fails); no two stored transactions share a
\* transaction_id.
C10_DuplicateCreate ==
    /\ []UniqueIds
    /\ [][ \A p \in Procs :
             (AddStep(p) /\ outcome'[p] # "dberror") =>
                LET stored == Stored(db, req[p].transaction_id)
                IN  /\ stored => (outcome'[p] = "exists" /\ db' = db)
                    /\ outcome'[p] = "exists" => db' = db
                    /\ outcome'[p] = "added" => ~stored
                    /\ ( /\ pc[p] = "add_insert"
                         /\ ~stored
                         /\ req[p].txn_type \in {"Credit", "Debit"} )
                       => outcome'[p] = "added"
         ]_vars

\* two creates of one id raced: one was added, the other failed as a duplicate
C10_Witness ==
    \E p, q \in Procs :
        /\ p # q
        /\ req[p].op = "add" /\ req[q].op = "add"
        /\ req[p].transaction_id = req[q].transaction_id
        /\ outcome[p] = "added" /\ outcome[q] = "exists"
        /\ ~dirty[q]
        /\ Stored(db, req[p].transaction_id)

\* --------------------------------------------------------------- C11
\* handler p takes a step of the delete handler
DeleteStep(p) == pc[p] = "del_delete" /\ pc'[p] # pc[p]

\* C11: a delete request that no storage error ends returns with success,
\* also when its transaction_id is not stored, and then it leaves the
\* transaction store unchanged; the same delete run again on the state it
\* left changes nothing, and two deletes of one id leave the state one of
\* them leaves.
C11_DeleteIdempotent ==
    /\ [][ \A p \in Procs :
             (DeleteStep(p) /\ outcome'[p] # "dberror") =>
                LET x == req[p].transaction_id
                IN  /\ outcome'[p] = "deleted"
                    /\ ~Stored(db, x) => db'.txns = db.txns
                    /\ ~Stored(db', x)
                    /\ DeleteTxn(DeleteAlerts(db', x), x) = db'
         ]_vars
    /\ [](\A p, q \in Procs :
            ( /\ p # q
              /\ nreq = 2
              /\ req[p].op = "delete" /\ outcome[p] = "deleted"
              /\ req[q].op = "delete" /\ outcome[q] = "deleted"
              /\ req[p].transaction_id = req[q].transaction_id )
            => db = RunAlone(InitialDb, req[p]))

\* a stored transaction was deleted twice: the first delete removed it, the
\* second found nothing and returned with success all the same
C11_Witness ==
    \E p, q \in Procs :
        /\ p # q
        /\ Stored(InitialDb, req[p].transaction_id)
        /\ req[p].op = "delete" /\ outcome[p] = "deleted" /\ dirty[p]
        /\ req[q].op = "delete" /\ outcome[q] = "deleted" /\ ~dirty[q]
        /\ req[p].transaction_id = req[q].transaction_id
        /\ ~Stored(db, req[p].transaction_id)

\* --------------------------------------------------------------- C12
\* the number of alerts that reference tid
AlertCount(d, tid) ==
    BagCardinality(BagSelect(d.alerts,
        {a \in DOMAIN d.alerts : a.transaction_id = tid}))

\* C12: the same update of a stored transaction submitted twice, both run
\* to their end with no other request, leaves the database that one of them
\* leaves (the same alerts, the same status, no alert more); and from every
\* state an update is about to run in, running it twice gives what running
\* it once gives.
C12_ReevaluationIdempotent ==
    /\ \A p, q \in Procs :
          ( /\ p # q
            /\ nreq = 2
            /\ req[p].op = "update" /\ req[q] = req[p]
            /\ outcome[p] = "updated" /\ outcome[q] = "updated"
            /\ pc[p] = "idle" /\ pc[q] = "idle"
            /\ Stored(InitialDb, req[p].transaction_id) )
          => db = RunAlone(InitialDb, req[p])
    /\ \A p \in Procs :
          ( /\ pc[p] = "upd_update"
            /\ Stored(db, req[p].transaction_id) )
          => LET once == RunAlone(db, req[p])
             IN  /\ RunAlone(once, req[p]) = once
                 /\ AlertCount(once, req[p].transaction_id) <= 2

\* the same update of a stored transaction ran twice, and the transaction
\* is flagged with its two alerts, one for each rule
C12_Witness ==
    \E p, q \in Procs :
        /\ p # q
        /\ req[p].op = "update" /\ req[q] = req[p]
        /\ outcome[p] = "updated" /\ outcome[q] = "updated"
        /\ pc[p] = "idle" /\ pc[q] = "idle"
        /\ Stored(InitialDb, req[p].transaction_id)
        /\ HighAlertFor(db, req[p].transaction_id)
        /\ VelocityAlertFor(db, req[p].transaction_id)
        /\ AlertCount(db, req[p].transaction_id) = 2
        /\ \E r \in DOMAIN db.txns :
              r.transaction_id = req[p].transaction_id /\ r.status = "FLAGGED"

\* --------------------------------------------------------------- C13
\* the number of alerts of one rule that reference tid
RuleAlertCount(d, tid, rule) ==
    BagCardinality(BagSelect(d.alerts,
        {a \in DOMAIN d.alerts : a.transaction_id = tid /\ a.reason[1] = rule}))

\* C13: in every reachable state each transaction_id has at most one
\* high-amount alert and at most one velocity alert.
C13_OneAlertPerRule ==
    \A a \in DOMAIN db.alerts :
        /\ RuleAlertCount(db, a.transaction_id, "High amount transaction") <= 1
        /\ RuleAlertCount(db, a.transaction_id, "Rapid transactions detected") <= 1

\* --------------------------------------------------------------- C14
Rejections == {"required", "format", "amount"}

\* C14: a create or update request that the validation rejected is over
\* and has committed no change of either store; a request that passed the
\* validation has amount > 0 and every required field filled in; every
\* stored transaction and every alert has amount > 0.
C14_ValidationRejects ==
    /\ \A p \in Procs :
          req[p].op \in {"add", "update"} =>
             IF outcome[p] \in Rejections
             THEN pc[p] = "idle" /\ ~dirty[p]
             ELSE /\ req[p].amount > 0
                  /\ req[p].transaction_id # ""
                  /\ req[p].user_id # ""
                  /\ req[p].location # ""
                  /\ req[p].txn_type # ""
    /\ \A r \in DOMAIN db.txns : r.amount > 0
    /\ \A a \in DOMAIN db.alerts : a.amount > 0

\* a create was rejected for its amount and an update for a missing field,
\* and the database is the initial one
C14_Witness ==
    \E p, q \in Procs :
        /\ req[p].op = "add" /\ outcome[p] = "amount"
        /\ req[q].op = "update" /\ outcome[q] = "required"
        /\ db = SampleDb

\* --------------------------------------------------------------- C15
\* the rules that have an alert for tid, and the status of the stored tid
FiredRules(d, tid) ==
    {a.reason[1] : a \in {b \in DOMAIN d.alerts : b.transaction_id = tid}}

StatusOf(d, tid) ==
    {r.status : r \in {t \in DOMAIN d.txns : t.transaction_id = tid}}

SameVerdict(d, e, tid) ==
    /\ FiredRules(d, tid) = FiredRules(e, tid)
    /\ StatusOf(d, tid) = StatusOf(e, tid)
    /\ AlertCount(d, tid) = AlertCount(e, tid)

\* the delete of r's transaction and then its create with r's fields
DeleteThenCreate(d, r) ==
    RunAlone(RunAlone(d, [r EXCEPT !.op = "delete"]), [r EXCEPT !.op = "add"])

\* C15: the update of a stored transaction T to valid fields F leaves the
\* same fired rules as alerts for T and the same status of T as the delete
\* of T followed by the create of T with F: from every state an update is
\* about to run in, for an update that ran alone from the initial database,
\* and for a delete and a create that ran from the initial database.
C15_UpdateAsDeleteCreate ==
    /\ \A p \in Procs :
          ( /\ pc[p] = "upd_update"
            /\ Stored(db, req[p].transaction_id)
            /\ ~CheckViolation(req[p].txn_type) )
          => SameVerdict(RunAlone(db, req[p]), DeleteThenCreate(db, req[p]),
                         req[p].transaction_id)
    /\ \A p \in Procs :
          ( /\ nreq = 1
            /\ req[p].op = "update" /\ outcome[p] = "updated" /\ pc[p] = "idle"
            /\ Stored(InitialDb, req[p].transaction_id) )
          => SameVerdict(db, DeleteThenCreate(InitialDb, req[p]),
                         req[p].transaction_id)
    /\ \A p, q \in Procs :
          ( /\ nreq = 2
            /\ req[p].op = "delete" /\ outcome[p] = "deleted"
            /\ req[q].op = "add" /\ outcome[q] = "added"
            /\ req[p].transaction_id = req[q].transaction_id
            /\ Stored(InitialDb, req[p].transaction_id) )
          => SameVerdict(db, RunAlone(InitialDb, [req[q] EXCEPT !.op = "update"]),
                         req[p].transaction_id)

\* a stored transaction was deleted and created again with an amount and a
\* time that breach both rules
C15_Witness ==
    \E p, q \in Procs :
        /\ req[p].op = "delete" /\ outcome[p] = "deleted"
        /\ req[q].op = "add" /\ outcome[q] = "added"
        /\ req[p].transaction_id = req[q].transaction_id
        /\ Stored(InitialDb, req[p].transaction_id)
        /\ FiredRules(db, req[q].transaction_id)
              = {"High amount transaction", "Rapid transactions detected"}
        /\ StatusOf(db, req[q].transaction_id) = {"FLAGGED"}

\* --------------------------------------------------------------- C16
\* the rows and the alerts of every transaction_id other than tid
Others(d, tid) ==
    [txns   |-> BagSelect(d.txns, {r \in DOMAIN d.txns : r.transaction_id # tid}),
     alerts |-> BagSelect(d.alerts, {a \in DOMAIN d.alerts : a.transaction_id # tid})]

\* C16: every step that changes the database is a step of a request on
\* some transaction_id X, and it leaves the fields, the status and the
\* alerts of every other transaction_id as they were.
C16_NoRetroactiveCascade ==
    [][ db' # db =>
          \E p \in Procs :
              /\ pc[p] # "idle" /\ pc'[p] # pc[p]
              /\ Others(db', req[p].transaction_id) = Others(db, req[p].transaction_id)
      ]_vars

\* a delete took a transaction out of the window of another transaction,
\* which keeps its velocity alert and its status although its window now
\* holds no more than 5 transactions
C16_Witness ==
    /\ \E p \in Procs :
          /\ req[p].op = "delete" /\ outcome[p] = "deleted" /\ dirty[p]
          /\ ~Stored(db, req[p].transaction_id)
    /\ \E r \in DOMAIN db.txns :
          /\ r.status = "FLAGGED"
          /\ VelocityAlertFor(db, r.transaction_id)
          /\ InWindow(db, r.user_id, r.txn_time) <= 5

\* --------------------------------------------------------------- C17
\* C17: in every committed state every alert's transaction_id is the id of
\* a stored transaction.
C17_NoDanglingAlert ==
    \A a \in DOMAIN db.alerts : Stored(db, a.transaction_id)

\* --------------------------------------------------------------- C18
\* C18: in every committed state every alert that references a stored
\* transaction carries that transaction's stored user_id and amount.
C18_AlertsNotStale ==
    \A a \in DOMAIN db.alerts : \A r \in DOMAIN db.txns :
        a.transaction_id = r.transaction_id =>
            (a.user_id = r.user_id /\ a.amount = r.amount)

====
